---- MODULE Spec2Model ----
(***************************************************************************)
(* Grid path finding of TheErickLiu/APCompSciSubmission.                   *)
(*                                                                         *)
(* Two source files implement the same search with differences:            *)
(*   "APCSP"      src/APCSP_pathfinder.py                                  *)
(*   "pathfinder" src/pathfinder.py                                        *)
(* The variable `variant` says which file a behaviour runs.  A behaviour   *)
(* is one call find_path(waypoints, obstacles, N, M): the navigate call of *)
(* each pair of waypoints runs one loop iteration per step.                *)
(*                                                                         *)
(* A cell is a pair <<x, y>> = (row, column), as the GUI builds them.      *)
(* math.dist returns a float; the model keeps distances as integers in     *)
(* units of 1/Scale, rounded down (Dist).                                  *)
(***************************************************************************)
EXTENDS Integers, Sequences, FiniteSets, TLC

\* ---------------------------------------------------------------- bounds
MaxHeight == 4      \* N of the wide grid, searched between two waypoints
MaxWidth == 5       \* M of the wide grid
RouteSide == 3      \* N = M of the square grid, on which longer routes are chained
MaxObstacles == 1   \* obstacle cells drawn on a grid
MaxWaypoints == 3   \* waypoints of a route on the square grid

Scale == 1000       \* fixed-point unit of a distance

VARIABLES
  variant,       \* which source file runs
  N, M,          \* rows and columns of the grid
  obstacles,     \* list of obstacle cells, as gui_to_obstacles builds it
  waypoints,     \* list of waypoints
  i,             \* find_path: index of the pair being searched
  final_path,    \* find_path: the route assembled so far
  obstacle_point,\* pathfinder.find_path: the obstacle approached, or NoCell
  fpc,           \* find_path: "segment", "obstacle" (get_path_to_obstacle) or "done"
  direct,        \* pathfinder.find_path: the flag returned
  search         \* the running navigate call (see NavStart)

vars == <<variant, N, M, obstacles, waypoints, i, final_path, obstacle_point,
          fpc, direct, search>>

NoCell == <<-1, -1>>     \* None

Range(f) == {f[k] : k \in DOMAIN f}

\* ------------------------------------------------------------- distances
Abs(a) == IF a < 0 THEN -a ELSE a

MaxSquare == 2 * (MaxHeight + MaxWidth + 2) * (MaxHeight + MaxWidth + 2)

RECURSIVE Bisect(_, _, _)
\* the largest r in lo..hi with r * r <= n, given lo * lo <= n
Bisect(n, lo, hi) ==
  IF lo >= hi THEN lo
  ELSE LET mid == (lo + hi + 1) \div 2
       IN  IF mid * mid <= n THEN Bisect(n, mid, hi) ELSE Bisect(n, lo, mid - 1)

\* floor(Scale * sqrt(k))
SqrtTable == [k \in 0..MaxSquare |->
                Bisect(k * Scale * Scale, 0, Scale * (MaxHeight + MaxWidth + 2) * 2)]

\* math.dist(a, b)
Dist(a, b) == SqrtTable[(a[1] - b[1]) * (a[1] - b[1]) + (a[2] - b[2]) * (a[2] - b[2])]

\* ------------------------------------------------------------ Point.__lt__
\* A search node (class Point), kept in the dictionary under its cell:
\*   dist_to_start  g_score / dist_to_start
\*   dist_to_end    APCSP only
\*   f_score        pathfinder only
\*   visited        state = 1 (CLOSED) / visited
\*   parent         the cell of the parent Point, NoCell for None
Point(g, e, f, par) ==
  [dist_to_start |-> g, dist_to_end |-> e, f_score |-> f, visited |-> FALSE, parent |-> par]

\* self < other
Lt(self, other) ==
  IF variant = "APCSP"
  THEN (self.dist_to_start + self.dist_to_end) < (self.dist_to_start + other.dist_to_end)
  ELSE self.f_score < other.f_score

\* ------------------------------------------------------------------ heapq
\* A heap is a sequence of cells; position pos of heapq is index pos + 1, so
\* the parent of index k is k \div 2 and its children are 2k and 2k + 1.
RECURSIVE SiftDown(_, _, _, _, _)
SiftDown(heap, dict, newitem, startpos, pos) ==
  IF pos > startpos /\ Lt(dict[newitem], dict[heap[pos \div 2]])
  THEN SiftDown([heap EXCEPT ![pos] = heap[pos \div 2]], dict, newitem, startpos, pos \div 2)
  ELSE [heap EXCEPT ![pos] = newitem]

RECURSIVE SiftUpLoop(_, _, _)
\* the loop of heapq._siftup: bubbles the smaller child up until a leaf is hit;
\* returns the heap and the position of the hole
SiftUpLoop(heap, dict, pos) ==
  LET childpos == 2 * pos
      rightpos == childpos + 1
      c == IF rightpos <= Len(heap) /\ ~Lt(dict[heap[childpos]], dict[heap[rightpos]])
           THEN rightpos ELSE childpos
  IN  IF childpos <= Len(heap)
      THEN SiftUpLoop([heap EXCEPT ![pos] = heap[c]], dict, c)
      ELSE <<heap, pos>>

SiftUp(heap, dict, pos) ==
  LET r == SiftUpLoop(heap, dict, pos)
  IN  SiftDown(r[1], dict, heap[pos], pos, r[2])

\* heappush(heap, item)
HeapPush(heap, dict, item) ==
  SiftDown(Append(heap, item), dict, item, 1, Len(heap) + 1)

\* heappop(heap): <<the item returned, the heap left>>
HeapPop(heap, dict) ==
  LET lastelt == heap[Len(heap)]
      rest == SubSeq(heap, 1, Len(heap) - 1)
  IN  IF rest # <<>>
      THEN <<heap[1], SiftUp([rest EXCEPT ![1] = lastelt], dict, 1)>>
      ELSE <<lastelt, rest>>

RECURSIVE HeapifyFrom(_, _, _)
HeapifyFrom(heap, dict, k) ==
  IF k < 1 THEN heap ELSE HeapifyFrom(SiftUp(heap, dict, k), dict, k - 1)

\* heapify(heap)
Heapify(heap, dict) == HeapifyFrom(heap, dict, Len(heap) \div 2)

\* -------------------------------------------------------------- neighbors
directions == << <<0, 1>>, <<0, -1>>, <<1, 0>>, <<-1, 0>>,
                 <<1, 1>>, <<-1, -1>>, <<1, -1>>, <<-1, 1>> >>

\* the test of one direction d from cell p: TRUE when the neighbour is kept
GoodNeighbor(p, d, obs, n, m) ==
  LET x == p[1] + d[1]
      y == p[2] + d[2]
  IN  IF variant = "APCSP"
      THEN ~(<<x, y>> \in obs \/ x <= 0 \/ y <= 0 \/ x >= n \/ y >= m)
      ELSE /\ ~(<<x, y>> \in obs \/ y <= 0 \/ x <= 0 \/ y >= n \/ x >= m)
           /\ ~(/\ d[1] # 0 /\ d[2] # 0
                /\ (<<p[1] + d[1], p[2]>> \in obs \/ <<p[1], p[2] + d[2]>> \in obs))

RECURSIVE NeighborsFrom(_, _, _, _, _)
NeighborsFrom(p, obs, n, m, k) ==
  IF k > Len(directions) THEN <<>>
  ELSE (IF GoodNeighbor(p, directions[k], obs, n, m)
        THEN << <<p[1] + directions[k][1], p[2] + directions[k][2]>> >>
        ELSE <<>>) \o NeighborsFrom(p, obs, n, m, k + 1)

\* neighbors(p, obstacles, N, M): the list good_neighbors
neighbors(p, obs, n, m) == NeighborsFrom(p, obs, n, m, 1)

\* ---------------------------------------------------------- retrace_steps
RECURSIVE retrace_steps(_, _)
retrace_steps(dict, p) ==
  IF p = NoCell THEN <<>> ELSE Append(retrace_steps(dict, dict[p].parent), p)

\* ---------------------------------------------------------------- navigate
\* The state of a navigate call:
\*   start, end    p1, p2
\*   candidates    the heap (openpoints / candidates)
\*   point_dict    the dictionary cell -> Point (visited / point_dict)
\*   current       the Point popped last, NoCell before the first pop
\*   pc            "loop" in the while loop, "returned" after return
\*   path          the list returned
\* (mutant) navigate with the validation of section 7 of the specification:
\* a start or end out of bounds or on an obstacle is rejected before the loop
NavStartRejecting(p1, p2) ==
  LET bad(c) == c \in Range(obstacles) \/ c[1] <= 0 \/ c[2] <= 0 \/ c[1] >= N \/ c[2] >= M
  IN  [start |-> p1, end |-> p2,
       candidates |-> IF bad(p1) \/ bad(p2) THEN <<>> ELSE <<p1>>,
       point_dict |-> (p1 :> Point(0, IF variant = "APCSP" THEN Dist(p1, p2) ELSE 0, 0, NoCell)),
       current |-> NoCell,
       pc |-> IF bad(p1) \/ bad(p2) THEN "returned" ELSE "loop",
       path |-> <<>>]

NavStart(p1, p2) ==
  [start |-> p1, end |-> p2,
   candidates |-> <<p1>>,
   point_dict |-> (p1 :> Point(0, IF variant = "APCSP" THEN Dist(p1, p2) ELSE 0, 0, NoCell)),
   current |-> NoCell, pc |-> "loop", path |-> <<>>]

\* (mutant) the body of the neighbour loop without `if p.visited: continue`:
\* a neighbour that is Closed is taken for a brand new one, made Open again
\* with current as predecessor and pushed
VisitNeighborReopening(hd, current, n, p2) ==
  LET heap == hd[1]
      dict == hd[2]
      cur == dict[current]
      g == Dist(current, n)
      fresh == IF variant = "APCSP"
               THEN Point(g, Dist(n, p2), 0, current)
               ELSE Point(g, 0, g + Dist(n, p2), current)
  IN  IF n \in DOMAIN dict /\ ~dict[n].visited
      THEN LET p == dict[n]
               offered == cur.dist_to_start + Dist(n, current)
               q == [p EXCEPT !.dist_to_start = offered,
                              !.dist_to_end = IF variant = "APCSP" THEN Dist(n, p2) ELSE 0,
                              !.f_score = IF variant = "APCSP" THEN 0 ELSE offered + Dist(n, p2),
                              !.parent = current]
               d2 == [dict EXCEPT ![n] = q]
           IN  IF offered >= p.dist_to_start
               THEN hd
               ELSE <<Heapify(heap, d2), d2>>
      ELSE LET d2 == IF n \in DOMAIN dict THEN [dict EXCEPT ![n] = fresh]
                                           ELSE (n :> fresh) @@ dict
           IN  <<HeapPush(heap, d2, n), d2>>

\* the body of `for n in my_neighbors` for one neighbour n:
\* hd = <<candidates, point_dict>> before, the result is the pair after
VisitNeighbor(hd, current, n, p2) ==
  LET heap == hd[1]
      dict == hd[2]
      cur == dict[current]
  IN  IF n \in DOMAIN dict
      THEN LET p == dict[n]
               offered == cur.dist_to_start + Dist(n, current)
               q == [p EXCEPT !.dist_to_start = offered,
                              !.dist_to_end = IF variant = "APCSP" THEN Dist(n, p2) ELSE 0,
                              !.f_score = IF variant = "APCSP" THEN 0 ELSE offered + Dist(n, p2),
                              !.parent = current]
               d2 == [dict EXCEPT ![n] = q]
           IN  IF p.visited \/ offered >= p.dist_to_start
               THEN hd
               ELSE <<Heapify(heap, d2), d2>>
      ELSE LET g == Dist(current, n)
               p == IF variant = "APCSP"
                    THEN Point(g, Dist(n, p2), 0, current)
                    ELSE Point(g, 0, g + Dist(n, p2), current)
               d2 == (n :> p) @@ dict
           IN  <<HeapPush(heap, d2, n), d2>>

RECURSIVE VisitNeighbors(_, _, _, _, _)
VisitNeighbors(hd, current, ns, k, p2) ==
  IF k > Len(ns) THEN hd
  ELSE VisitNeighbors(VisitNeighbor(hd, current, ns[k], p2), current, ns, k + 1, p2)

\* (mutant) the loop body without `current.visited = True`: the node popped
\* is never Closed
IterateNotClosing(s, obs, n, m) ==
  IF s.candidates = <<>>
  THEN [s EXCEPT !.pc = "returned", !.path = <<>>]
  ELSE LET popped == HeapPop(s.candidates, s.point_dict)
           current == popped[1]
           dict == s.point_dict
       IN  IF current = s.end
           THEN [s EXCEPT !.candidates = popped[2], !.current = current,
                          !.pc = "returned", !.path = retrace_steps(dict, current)]
           ELSE LET hd == VisitNeighbors(<<popped[2], dict>>, current,
                                         neighbors(current, obs, n, m), 1, s.end)
                IN  [s EXCEPT !.candidates = hd[1], !.point_dict = hd[2],
                              !.current = current]

\* one evaluation of the loop condition and, when it holds, of the loop body
Iterate(s, obs, n, m) ==
  IF s.candidates = <<>>
  THEN [s EXCEPT !.pc = "returned", !.path = <<>>]
  ELSE LET popped == HeapPop(s.candidates, s.point_dict)
           current == popped[1]
           dict == [s.point_dict EXCEPT ![current].visited = TRUE]
       IN  IF current = s.end
           THEN [s EXCEPT !.candidates = popped[2], !.point_dict = dict,
                          !.current = current, !.pc = "returned",
                          !.path = retrace_steps(dict, current)]
           ELSE LET hd == VisitNeighbors(<<popped[2], dict>>, current,
                                         neighbors(current, obs, n, m), 1, s.end)
                IN  [s EXCEPT !.candidates = hd[1], !.point_dict = hd[2],
                              !.current = current]

RECURSIVE Run(_, _, _, _)
Run(s, obs, n, m) == IF s.pc = "returned" THEN s ELSE Run(Iterate(s, obs, n, m), obs, n, m)

\* navigate(p1, p2, obstacles, N, M), run to its return
navigate(p1, p2, obs, n, m) == Run(NavStart(p1, p2), obs, n, m).path

\* ------------------------------------------------- gui / grid_to_obstacles
\* the cells of an n x m grid the GUI can mark: rows 0..n-1, columns 0..m-1
Cells(n, m) == (0..(n - 1)) \X (0..(m - 1))

RECURSIVE ScanGrid(_, _, _, _)
\* for r in range(n): for c in range(m): if grid[r][c] == 2: append((r, c)),
\* from the k-th cell of the scan on; marked is the set of cells with value 2
ScanGrid(marked, n, m, k) ==
  IF k >= n * m THEN <<>>
  ELSE (IF <<k \div m, k % m>> \in marked THEN << <<k \div m, k % m>> >> ELSE <<>>)
       \o ScanGrid(marked, n, m, k + 1)

\* gui_to_obstacles() / grid_to_obstacles(grid, N, M)
grid_to_obstacles(marked, n, m) == ScanGrid(marked, n, m, 0)

ObstacleSet == Range(obstacles)

\* ---------------------------------------------------------------- find_path
RECURSIVE NearestFrom(_, _, _, _, _, _)
\* the loop `for obstacle in obstacles` of pathfinder.find_path from index k on;
\* best is obstacle_point so far and min is min_distance (-1 for float('inf'))
NearestFrom(obs, a, b, k, best, min) ==
  IF k > Len(obs) THEN best
  ELSE LET dist == Dist(a, obs[k]) + Dist(obs[k], b)
       IN  IF min = -1 \/ dist < min
           THEN NearestFrom(obs, a, b, k + 1, obs[k], dist)
           ELSE NearestFrom(obs, a, b, k + 1, best, min)

NearestObstacle(obs, a, b) == NearestFrom(obs, a, b, 1, NoCell, -1)

\* (mutant) every segment joins the route whole
ExtendWhole(route, path_segment, k) ==
  IF variant = "APCSP" THEN Append(route, path_segment) ELSE route \o path_segment

\* a found segment joins the route: APCSP keeps the segments apart, pathfinder
\* concatenates them, the first whole (k = 0) and the later ones without
\* their first cell
Extend(route, path_segment, k) ==
  IF variant = "APCSP" THEN Append(route, path_segment)
  ELSE IF k = 0 THEN route \o path_segment
  ELSE route \o Tail(path_segment)

\* one loop iteration of navigate (the running call)
NavStep ==
  /\ fpc \in {"segment", "obstacle"}
  /\ search.pc = "loop"
  /\ search' = Iterate(search, ObstacleSet, N, M)
  /\ UNCHANGED <<variant, N, M, obstacles, waypoints, i, final_path, obstacle_point,
                 fpc, direct>>

\* find_path, a segment was found: append it and go on with the next pair,
\* or return when the pairs are exhausted
SegmentFound ==
  /\ fpc = "segment"
  /\ search.pc = "returned"
  /\ search.path # <<>>
  /\ final_path' = Extend(final_path, search.path, i)
  /\ IF i + 1 < Len(waypoints) - 1
     THEN /\ i' = i + 1
          /\ search' = NavStart(waypoints[i + 2], waypoints[i + 3])
          /\ UNCHANGED <<fpc, direct>>
     ELSE /\ fpc' = "done"
          /\ direct' = TRUE
          /\ UNCHANGED <<i, search>>
  /\ UNCHANGED <<variant, N, M, obstacles, waypoints, obstacle_point>>

\* (mutant) APCSP_pathfinder.find_path without the break: [] is appended and
\* the loop goes on with the next pair
SegmentMissingContinue ==
  /\ variant = "APCSP"
  /\ fpc = "segment"
  /\ search.pc = "returned"
  /\ search.path = <<>>
  /\ final_path' = Append(final_path, <<>>)
  /\ IF i + 1 < Len(waypoints) - 1
     THEN /\ i' = i + 1
          /\ search' = NavStart(waypoints[i + 2], waypoints[i + 3])
          /\ UNCHANGED <<fpc, direct>>
     ELSE /\ fpc' = "done"
          /\ direct' = FALSE
          /\ UNCHANGED <<i, search>>
  /\ UNCHANGED <<variant, N, M, obstacles, waypoints, obstacle_point>>

\* APCSP_pathfinder.find_path, no path for the pair: append [] and break
SegmentMissingAPCSP ==
  /\ variant = "APCSP"
  /\ fpc = "segment"
  /\ search.pc = "returned"
  /\ search.path = <<>>
  /\ final_path' = Append(final_path, <<>>)
  /\ fpc' = "done"
  /\ direct' = FALSE
  /\ UNCHANGED <<variant, N, M, obstacles, waypoints, i, obstacle_point, search>>

\* pathfinder.find_path, no path for the pair: pick the obstacle and call
\* get_path_to_obstacle, or return when there is no obstacle
SegmentMissingPathfinder ==
  /\ variant = "pathfinder"
  /\ fpc = "segment"
  /\ search.pc = "returned"
  /\ search.path = <<>>
  /\ LET o == NearestObstacle(obstacles, waypoints[i + 1], waypoints[i + 2])
     IN  /\ obstacle_point' = o
         /\ IF o # NoCell
            THEN /\ fpc' = "obstacle"
                 /\ search' = NavStart(waypoints[i + 1], o)
                 /\ UNCHANGED direct
            ELSE /\ fpc' = "done"
                 /\ direct' = FALSE
                 /\ UNCHANGED search
  /\ UNCHANGED <<variant, N, M, obstacles, waypoints, i, final_path>>

\* get_path_to_obstacle returns: extend the route and return it with False
ObstacleReturn ==
  /\ fpc = "obstacle"
  /\ search.pc = "returned"
  /\ LET path_to_obstacle == IF search.path # <<>>
                             THEN SubSeq(search.path, 1, Len(search.path) - 1)
                             ELSE <<>>
     IN  final_path' = Append(final_path \o path_to_obstacle, obstacle_point)
  /\ fpc' = "done"
  /\ direct' = FALSE
  /\ UNCHANGED <<variant, N, M, obstacles, waypoints, i, obstacle_point, search>>

Next == NavStep \/ SegmentFound \/ SegmentMissingAPCSP \/ SegmentMissingPathfinder
        \/ ObstacleReturn

\* ------------------------------------------------------------------- inputs
SeqsOf(S, lo, hi) == UNION {[1..k -> S] : k \in lo..hi}

\* find_path is entered with the lists the GUI built; the first navigate call
\* is set up
InitWith(n, m, maxway) ==
  /\ variant \in {"APCSP", "pathfinder"}
  /\ N = n
  /\ M = m
  /\ \E marked \in {S \in SUBSET Cells(N, M) : Cardinality(S) <= MaxObstacles} :
       obstacles = grid_to_obstacles(marked, N, M)
  /\ waypoints \in SeqsOf(Cells(N, M), 2, maxway)
  /\ i = 0
  /\ final_path = <<>>
  /\ obstacle_point = NoCell
  /\ fpc = "segment"
  /\ direct = FALSE
  /\ search = NavStart(waypoints[1], waypoints[2])

Init == \/ InitWith(MaxHeight, MaxWidth, 2)
        \/ InitWith(RouteSide, RouteSide, MaxWaypoints)

Spec == Init /\ [][Next]_vars

\* a statement of find_path or of the loop of navigate remains to be run
\* exactly as long as find_path has not returned
NextEnabled == fpc # "done"

\* The interpreter runs find_path and the loop of navigate statement after
\* statement: a step that can be taken is taken. This is weak fairness of
\* Next, WF_vars(Next) = []<>(~ENABLED <<Next>>_vars) \/ []<><<Next>>_vars,
\* written with the enabling condition of Next spelled out.
Fairness == []<>(~NextEnabled) \/ []<><<Next>>_vars

FairSpec == Spec /\ Fairness

\* =========================================================================
\* The statements checked.  The notions below are those of the specification
\* document, written independently of the search: height = N, width = M.
\* =========================================================================
InBounds(c, h, w) == 0 < c[1] /\ c[1] < h /\ 0 < c[2] /\ c[2] < w

Adjacent(p, q) == p # q /\ Abs(p[1] - q[1]) <= 1 /\ Abs(p[2] - q[2]) <= 1

\* a valid move from p to q; corner says whether the corner rule applies
ValidMove(p, q, obs, h, w, corner) ==
  /\ Adjacent(p, q)
  /\ q \notin obs
  /\ InBounds(q, h, w)
  /\ (corner /\ p[1] # q[1] /\ p[2] # q[2])
        => (<<q[1], p[2]>> \notin obs /\ <<p[1], q[2]>> \notin obs)

Region(h, w) == (1..(h - 1)) \X (1..(w - 1))

RECURSIVE Closure(_, _, _, _, _, _)
\* the cells reached from the cells of seen by valid moves
Closure(seen, frontier, obs, h, w, corner) ==
  IF frontier = {} THEN seen
  ELSE LET new == {q \in Region(h, w) \ seen :
                      \E p \in frontier : ValidMove(p, q, obs, h, w, corner)}
       IN  Closure(seen \cup new, new, obs, h, w, corner)

Reachable(p1, obs, h, w, corner) == Closure({p1}, {p1}, obs, h, w, corner)

Infinity == Scale * 1000000

\* Shortest lengths by exhaustive relaxation (Bellman-Ford) over the cells of
\* the h x w grid; cell <<x, y>> has index x * w + y + 1 in the sequence D.
CellAt(k, w) == <<(k - 1) \div w, (k - 1) % w>>

IndexOf(c, w) == c[1] * w + c[2] + 1

RECURSIVE BestInto(_, _, _, _, _, _, _, _)
\* the least of best and the lengths D[p] + |pq| over the valid moves into q
\* from the j-th direction on
BestInto(D, q, j, best, obs, h, w, corner) ==
  IF j > Len(directions) THEN best
  ELSE LET p == <<q[1] - directions[j][1], q[2] - directions[j][2]>>
           via == IF /\ p \in Cells(h, w)
                     /\ D[IndexOf(p, w)] < Infinity
                     /\ ValidMove(p, q, obs, h, w, corner)
                  THEN D[IndexOf(p, w)] + Dist(p, q)
                  ELSE Infinity
       IN  BestInto(D, q, j + 1, IF via < best THEN via ELSE best, obs, h, w, corner)

RECURSIVE RelaxFrom(_, _, _, _, _, _)
RelaxFrom(D, k, obs, h, w, corner) ==
  IF k = 0 THEN <<>>
  ELSE Append(RelaxFrom(D, k - 1, obs, h, w, corner),
              BestInto(D, CellAt(k, w), 1, D[k], obs, h, w, corner))

RECURSIVE Relaxed(_, _, _, _, _)
Relaxed(D, obs, h, w, corner) ==
  LET E == RelaxFrom(D, Len(D), obs, h, w, corner)
  IN  IF E = D THEN D ELSE Relaxed(E, obs, h, w, corner)

RECURSIVE StartLengths(_, _, _)
StartLengths(p1, k, w) ==
  IF k = 0 THEN <<>>
  ELSE Append(StartLengths(p1, k - 1, w), IF CellAt(k, w) = p1 THEN 0 ELSE Infinity)

\* the length of the shortest path of valid moves from p1 to p2, or Infinity
ShortestLength(p1, p2, obs, h, w, corner) ==
  Relaxed(StartLengths(p1, h * w, w), obs, h, w, corner)[IndexOf(p2, w)]

RECURSIVE PathLength(_)
\* the Euclidean length of a path: 1 per orthogonal step, sqrt(2) per diagonal one
PathLength(path) ==
  IF Len(path) <= 1 THEN 0 ELSE Dist(path[1], path[2]) + PathLength(Tail(path))

\* the corner rule is that of pathfinder.py only
CornerRule == variant = "pathfinder"

Returned == search.pc = "returned"

\* the request of the running navigate call is one the specification accepts:
\* start and end are in bounds and are no obstacles
ValidRequest ==
  /\ InBounds(search.start, N, M) /\ search.start \notin ObstacleSet
  /\ InBounds(search.end, N, M) /\ search.end \notin ObstacleSet

\* C1: when start # end and a path of valid moves exists, the path navigate
\* returns has the Euclidean length of the shortest such path (stated for the
\* requests with start and end in bounds and no obstacles, and for the paths
\* navigate does return; that it returns one is C2).
C1_ShortestPath ==
  (Returned /\ ValidRequest /\ search.start # search.end /\ search.path # <<>>)
  => PathLength(search.path)
       = ShortestLength(search.start, search.end, ObstacleSet, N, M, CornerRule)

\* C2: pathfinder.navigate returns the empty list if and only if no sequence
\* of valid moves (corner rule included) connects start to end (stated for the
\* requests with start and end in bounds and no obstacles).
C2_EmptyIffUnreachable ==
  (variant = "pathfinder" /\ Returned /\ ValidRequest)
  => (search.path = <<>>
        <=> search.end \notin Reachable(search.start, ObstacleSet, N, M, TRUE))

\* C3: a non-empty path returned by navigate goes from start to end through
\* 8-adjacent cells, none an obstacle, all in bounds (stated for the requests
\* with start and end in bounds and no obstacles).
C3_PathValid ==
  (Returned /\ ValidRequest /\ search.path # <<>>)
  => /\ search.path[1] = search.start
     /\ search.path[Len(search.path)] = search.end
     /\ \A k \in 1..(Len(search.path) - 1) : Adjacent(search.path[k], search.path[k + 1])
     /\ \A k \in 1..Len(search.path) :
           search.path[k] \notin ObstacleSet /\ InBounds(search.path[k], N, M)

RECURSIVE Flatten(_)
Flatten(segments) ==
  IF segments = <<>> THEN <<>> ELSE Head(segments) \o Flatten(Tail(segments))

\* the cells of the route find_path returns
RouteCells ==
  IF variant = "APCSP" THEN Range(Flatten(final_path)) ELSE Range(final_path)

ValidWaypoints ==
  \A k \in 1..Len(waypoints) :
     InBounds(waypoints[k], N, M) /\ waypoints[k] \notin ObstacleSet

\* C4: no path returned by navigate and no route returned by find_path holds
\* a cell of the reserved border or beyond it (stated for waypoints in bounds
\* that are no obstacles, and for the routes whose segments were all found).
C4_BorderReserved ==
  ValidWaypoints
  => /\ (Returned /\ fpc = "segment") => \A c \in Range(search.path) : InBounds(c, N, M)
     /\ (fpc = "done" /\ direct) => \A c \in RouteCells : InBounds(c, N, M)

SegmentOf(k) == navigate(waypoints[k], waypoints[k + 1], ObstacleSet, N, M)

RECURSIVE Joined(_)
\* the segments 1..k in one list, the shared waypoint of two segments once
Joined(k) ==
  IF k = 0 THEN <<>>
  ELSE IF k = 1 THEN SegmentOf(1)
  ELSE Joined(k - 1) \o Tail(SegmentOf(k))

\* C6: when a pair has no path and there are obstacles, pathfinder.find_path
\* picks the obstacle o of least dist(w[i], o) + dist(o, w[i+1]), searches
\* from w[i] to o with o taken out of the obstacles, appends that path up to
\* the cell before o and then o, and returns False (stated for a waypoint w[i]
\* in bounds that is no obstacle).
C6_ApproachToObstacle ==
  (/\ variant = "pathfinder" /\ fpc = "done" /\ ~direct /\ obstacles # <<>>
   /\ InBounds(waypoints[i + 1], N, M) /\ waypoints[i + 1] \notin ObstacleSet)
  => LET a == waypoints[i + 1]
         b == waypoints[i + 2]
         o == obstacle_point
         sub == navigate(a, o, ObstacleSet \ {o}, N, M)
         approach == IF sub = <<>> THEN <<>> ELSE SubSeq(sub, 1, Len(sub) - 1)
     IN  /\ o \in ObstacleSet
         /\ \A q \in ObstacleSet : Dist(a, o) + Dist(o, b) <= Dist(a, q) + Dist(q, b)
         /\ final_path = Append(Joined(i) \o approach, o)

NoRepeat(route) == \A k \in 1..(Len(route) - 1) : route[k] # route[k + 1]

Connected(route) == \A k \in 1..(Len(route) - 1) : Adjacent(route[k], route[k + 1])

RECURSIVE JunctionIndex(_)
\* the place of the k-th waypoint in the joined route
JunctionIndex(k) ==
  IF k = 1 THEN 1 ELSE JunctionIndex(k - 1) + Len(SegmentOf(k - 1)) - 1

Occurrences(route, c) == Cardinality({k \in 1..Len(route) : route[k] = c})

AllFound == variant = "pathfinder" /\ fpc = "done" /\ direct

\* C7 as claimed: when all segments are found, pathfinder.find_path returns
\* True with the segments joined, no two consecutive cells equal, consecutive
\* cells 8-adjacent, and each waypoint exactly once in the route.
C7_EachWaypointOnce ==
  AllFound
  => /\ final_path = Joined(Len(waypoints) - 1)
     /\ NoRepeat(final_path)
     /\ Connected(final_path)
     /\ \A k \in 1..Len(waypoints) : Occurrences(final_path, waypoints[k]) = 1

\* C7 as amended: ... and each waypoint stands at the junction of its two
\* segments, where it is stored once; the cell may occur again elsewhere in
\* the route (a waypoint repeated, or a segment passing over a waypoint).
C7_JoinedAtWaypoints ==
  AllFound
  => /\ final_path = Joined(Len(waypoints) - 1)
     /\ NoRepeat(final_path)
     /\ Connected(final_path)
     /\ \A k \in 1..Len(waypoints) : final_path[JunctionIndex(k)] = waypoints[k]
     /\ Len(final_path) = JunctionIndex(Len(waypoints))

C7_Witness ==
  AllFound /\ Len(waypoints) = 3 /\ Len(final_path) >= 4

\* C8: APCSP_pathfinder.find_path returns at most n - 1 segments, segment k
\* leading from w[k] to w[k+1]; when pair i has no path the result is the
\* segments of the pairs before i followed by one empty list, no later pair
\* is searched, and an empty list is only ever the last entry.
C8_SegmentsUntilFailure ==
  (variant = "APCSP" /\ fpc = "done")
  => LET n == Len(waypoints)
         r == final_path
     IN  /\ 1 <= Len(r) /\ Len(r) <= n - 1
         /\ \A k \in 1..Len(r) :
               /\ r[k] = SegmentOf(k)
               /\ r[k] # <<>> => (r[k][1] = waypoints[k]
                                    /\ r[k][Len(r[k])] = waypoints[k + 1])
               /\ k < Len(r) => r[k] # <<>>
         /\ r[Len(r)] # <<>> => Len(r) = n - 1
         /\ i = Len(r) - 1
         /\ search.start = waypoints[Len(r)] /\ search.end = waypoints[Len(r) + 1]

C8_Witness ==
  /\ variant = "APCSP" /\ fpc = "done"
  /\ Len(waypoints) = 3 /\ Len(final_path) = 2
  /\ Len(final_path[1]) >= 2 /\ final_path[2] = <<>>

\* the neighbours the specification describes, corner rule included
ExpectedNeighbors(p, obs, h, w) ==
  {q \in ((p[1] - 1)..(p[1] + 1)) \X ((p[2] - 1)..(p[2] + 1)) :
      ValidMove(p, q, obs, h, w, TRUE)}

\* C9: pathfinder.neighbors returns exactly the 8-adjacent cells that are no
\* obstacles, have 0 < row < height and 0 < column < width and, for a diagonal
\* offset, no obstacle on either corner cell; also when height # width
\* (stated for the cells a search with start and end in bounds expands).
C9_NeighborsExact ==
  (variant = "pathfinder" /\ ValidRequest /\ search.current # NoCell)
  => Range(neighbors(search.current, ObstacleSet, N, M))
       = ExpectedNeighbors(search.current, ObstacleSet, N, M)

\* the nodes created and not yet visited
Open == {c \in DOMAIN search.point_dict : ~search.point_dict[c].visited}

Total(c) == search.point_dict[c].dist_to_start + search.point_dict[c].dist_to_end

\* C10: in every iteration of APCSP_pathfinder.navigate the node removed from
\* the frontier (the head of the heap) has the least dist_to_start +
\* dist_to_end of all Open nodes (stated for the searches with start and end
\* in bounds and no obstacles).
C10_PopsMinimum ==
  (variant = "APCSP" /\ ValidRequest /\ search.pc = "loop" /\ search.candidates # <<>>)
  => \A c \in Open : Total(search.candidates[1]) <= Total(c)

\* -------------------------------------------------------------------------
\* Predecessor links of the Search Nodes.
\* ChainFrom follows the parent links from c, at most fuel links, and returns
\* the cells met, c first.
RECURSIVE ChainFrom(_, _, _)
ChainFrom(dict, c, fuel) ==
  IF c = NoCell \/ c \notin DOMAIN dict \/ fuel = 0 THEN <<>>
  ELSE <<c>> \o ChainFrom(dict, dict[c].parent, fuel - 1)

Chain(dict, c) == ChainFrom(dict, c, Cardinality(DOMAIN dict) + 1)

Closed == {c \in DOMAIN search.point_dict : search.point_dict[c].visited}

\* C11: at every point of a navigate run, each Search Node's dist_to_start
\* (g_score) equals the total Euclidean length of the path given by its
\* predecessor links back to the start cell (stated for requests whose start
\* and end are in bounds and free).
C11_CostAccumulated ==
  ValidRequest
  => \A c \in DOMAIN search.point_dict :
       search.point_dict[c].dist_to_start = PathLength(Chain(search.point_dict, c))

\* -------------------------------------------------------------------------
\* a step of the while loop inside one navigate run: find_path stays where it
\* is and the loop has not returned yet
LoopStep == search.pc = "loop" /\ fpc' = fpc /\ i' = i /\ search' # search

Frontier == Range(search.candidates)

\* C12: within one navigate run a Search Node goes from Open to Closed at
\* most once and never back: a cell enters the frontier only when its node
\* is created, the frontier holds no cell twice, the only cell that leaves it
\* is the one popped, which is Closed from then on, and a Closed node keeps
\* its cost, its predecessor and its place outside the frontier.
C12_ClosedOnce ==
  [][LoopStep =>
       /\ \A c \in Closed :
            /\ c \in DOMAIN search'.point_dict
            /\ search'.point_dict[c] = search.point_dict[c]
            /\ c \notin Range(search'.candidates)
       /\ \A c \in Range(search'.candidates) \ Frontier : c \notin DOMAIN search.point_dict
       /\ Cardinality(Range(search'.candidates)) = Len(search'.candidates)
       /\ \A c \in Frontier \ Range(search'.candidates) :
            /\ c = search'.current
            /\ search'.point_dict[c].visited
            /\ ~search.point_dict[c].visited
       /\ \A c \in DOMAIN search.point_dict : c \in DOMAIN search'.point_dict
    ]_vars

\* the loop is running with several nodes Closed, one of them a neighbour of
\* the node expanded last, and nodes still Open
C12_Witness ==
  /\ search.pc = "loop"
  /\ Cardinality(Closed) >= 3
  /\ Frontier # {}
  /\ \E c \in Closed : c # search.current /\ c # search.point_dict[search.current].parent
                       /\ Adjacent(c, search.current)

\* -------------------------------------------------------------------------
Larger(a, b) == IF a > b THEN a ELSE b

\* the finite set of cells in which Search Nodes can be created: whichever
\* way the bounds are tested, a neighbour has both coordinates below the
\* larger of N and M; the start cell is added as it is given
Creatable == ((0..Larger(N, M)) \X (0..Larger(N, M))) \cup {search.start}

\* the predecessor links from every node are acyclic and end at the start cell
ChainsEndAtStart ==
  \A c \in DOMAIN search.point_dict :
    LET ch == Chain(search.point_dict, c)
    IN  /\ Len(ch) <= Cardinality(DOMAIN search.point_dict)
        /\ Cardinality(Range(ch)) = Len(ch)
        /\ ch[Len(ch)] = search.start
        /\ search.point_dict[search.start].parent = NoCell

\* C13: navigate terminates for every start, end, obstacle set and grid size,
\* also when end is unreachable or start is outside the valid range: every
\* iteration of the loop closes one more cell of a finite set, an
\* iteration that has begun is followed by the return, the return is either a
\* path or comes with the frontier empty, and the predecessor links are
\* acyclic and end at the start cell.
C13_Terminates ==
  /\ [](ChainsEndAtStart /\ DOMAIN search.point_dict \subseteq Creatable)
  /\ [](Returned => (search.path # <<>> \/ search.candidates = <<>>))
  /\ [][(LoopStep /\ search.candidates # <<>>)
          => /\ search'.current \notin Closed
             /\ Closed' = Closed \cup {search'.current}]_vars
  /\ (search.pc = "loop") ~> Returned
  /\ <>[](fpc = "done" /\ Returned)

\* a run whose end is never reached has closed every node it created and
\* returned with the frontier empty
C13_Witness ==
  /\ Returned
  /\ search.path = <<>>
  /\ search.candidates = <<>>
  /\ Cardinality(Closed) >= 4
  /\ Closed = DOMAIN search.point_dict

====
